---- MODULE Spec2Model ----
(***************************************************************************)
(* Line codec of kroll42/transmissao (src/teste1.py): DigitalEncoder with  *)
(* its seven encode/decode scheme functions and dispatch tables, and the   *)
(* channel simulator of TransmissionSystem.  A behaviour is one caller     *)
(* session: encode, optionally simulate_channel, then decode, as done by   *)
(* TransmissionSystem.transmit and by main_menu's example branch.          *)
(***************************************************************************)
EXTENDS Integers, Sequences, FiniteSets

VARIABLES
    encoding_methods,   \* DigitalEncoder.encoding_methods: name -> function
    decoding_methods,   \* DigitalEncoder.decoding_methods: name -> function
    pc,                 \* caller position: start, encoded, received, decoded, raised
    calls,              \* API functions the caller has invoked so far, in order
    ran,                \* scheme functions the dispatchers have run, in order
    method,             \* the scheme name the caller passes
    binary_data,        \* the caller's bit list
    encoded_data,       \* the caller's level list (result of encode)
    noise_level,        \* noise probability in percent passed to simulate_channel
    transmitted_data,   \* result of simulate_channel
    decoded_data,       \* result of decode
    printed,            \* messages printed by the scheme functions
    error,              \* exception that ended the last call, or "none"
    obj,                \* the list object each caller variable is bound to (0: none)
    dm_reads,           \* indices differential_manchester_decode read in its argument
    first_call,         \* SpecCalls: the first encode/decode call made on the encoder
    last_call,          \* SpecCalls: the most recent encode/decode call
    left,               \* SpecCalls: the values the locals level and last_polarity
                        \* held when the most recent scheme function returned
    call,               \* SpecSteps, SpecThreads: the call each caller is making
    frame               \* SpecSteps, SpecThreads: the frame of that call: its
                        \* position, its locals and, once returned, its result

vars == <<encoding_methods, decoding_methods, pc, calls, ran, method,
          binary_data, encoded_data, noise_level, transmitted_data,
          decoded_data, printed, error, obj, dm_reads,
          first_call, last_call, left, call, frame>>

sessionVars == <<encoding_methods, decoding_methods, pc, calls, ran, method,
                 binary_data, encoded_data, noise_level, transmitted_data,
                 decoded_data, printed, error, obj, dm_reads>>
callVars == <<first_call, last_call, left>>
threadVars == <<call, frame>>

(***************************************************************************)
(* Bounds of the model.                                                    *)
(***************************************************************************)
MaxBits == 9        \* longest bit sequence handed to encode
MaxLevels == 4      \* longest arbitrary-valued sequence handed to encode/decode
MaxFlips == 1       \* most low random draws in one simulate_channel call
MaxCalls == 3       \* SpecCalls: most calls made on one encoder
MaxCallLen == 2     \* SpecCalls: longest list handed to one of these calls
MaxTesteLevels == 6 \* SpecTeste: longest 0/1 level list handed to decode
MaxStepLen == 4     \* SpecSteps: longest list handed to the call
MaxThreadLen == 2   \* SpecThreads: longest list handed to a call

Bit == {0, 1}
Values == {-1, 0, 1, 2}             \* list elements a caller may pass
NoiseLevels == {-50, 0, 50, 100, 150}

SeqsUpTo(S, n) == UNION {[1..k -> S] : k \in 0..n}
BitSeqs == SeqsUpTo(Bit, MaxBits)
ValueSeqs == SeqsUpTo(Values, MaxLevels)
CallSeqs == SeqsUpTo(Bit, MaxCallLen)
TesteLevelSeqs == SeqsUpTo(Bit, MaxTesteLevels)
StepSeqs == SeqsUpTo(Bit, MaxStepLen)
ThreadSeqs == SeqsUpTo(Bit, MaxThreadLen)

RegisteredMethods == {"Manchester", "NRZ", "NRZI", "AMI", "Biphase_Mark",
                      "Biphase_Space", "Differential_Manchester"}
UnknownMethods == {"manchester", "HDB3"}
MethodNames == RegisteredMethods \cup UnknownMethods

Zeros(n) == [j \in 1..n |-> 0]
Max(a, b) == IF a >= b THEN a ELSE b
IsBits(s) == \A k \in 1..Len(s) : s[k] \in Bit

(***************************************************************************)
(* Encoders.  Each *_body is the body of the for loop over binary_data,    *)
(* acting on the locals [level, encoded]; ForEach runs the loop.           *)
(***************************************************************************)
RECURSIVE ForEach(_, _, _, _)
ForEach(Body(_, _), data, k, st) ==
    IF k > Len(data) THEN st
    ELSE ForEach(Body, data, k + 1, Body(data[k], st))

manchester_encode_body(bit, st) ==
    IF bit = 0
    THEN [st EXCEPT !.encoded = @ \o <<0, 1>>]
    ELSE [st EXCEPT !.encoded = @ \o <<1, 0>>]

manchester_encode(data) ==
    ForEach(manchester_encode_body, data, 1, [encoded |-> <<>>]).encoded

\* mutant: the level is normalised to 0/1 instead of copied
nrz_encode_body_normalising(bit, st) ==
    [st EXCEPT !.encoded = Append(@, IF bit = 0 THEN 0 ELSE 1)]

nrz_encode_body(bit, st) == [st EXCEPT !.encoded = Append(@, bit)]

nrz_encode(data) ==
    ForEach(nrz_encode_body, data, 1, [encoded |-> <<>>]).encoded

nrzi_encode_body(bit, st) ==
    IF bit = 0
    THEN [st EXCEPT !.encoded = Append(@, st.level)]
    ELSE [level |-> 1 - st.level, encoded |-> Append(st.encoded, 1 - st.level)]

\* mutant: the running level is kept from the previous call (as an attribute
\* of the encoder would be) instead of being reset to 0
nrzi_encode_persisting(data) ==
    ForEach(nrzi_encode_body, data, 1, [level |-> left.level, encoded |-> <<>>]).encoded

nrzi_encode(data) ==
    ForEach(nrzi_encode_body, data, 1, [level |-> 0, encoded |-> <<>>]).encoded

\* mutant: a 0-bit flips the running polarity too
ami_encode_body_zero_flips(bit, st) ==
    IF bit = 0
    THEN [last_polarity |-> -st.last_polarity, encoded |-> Append(st.encoded, 0)]
    ELSE [last_polarity |-> -st.last_polarity,
          encoded |-> Append(st.encoded, -st.last_polarity)]

ami_encode_body(bit, st) ==
    IF bit = 0
    THEN [st EXCEPT !.encoded = Append(@, 0)]
    ELSE [last_polarity |-> -st.last_polarity,
          encoded |-> Append(st.encoded, -st.last_polarity)]

\* mutant: the running polarity starts at -1
ami_encode_negative(data) ==
    ForEach(ami_encode_body, data, 1, [last_polarity |-> -1, encoded |-> <<>>]).encoded

ami_encode(data) ==
    ForEach(ami_encode_body, data, 1, [last_polarity |-> 1, encoded |-> <<>>]).encoded

\* mutant: a 0 bit gets no mid-symbol transition
biphase_mark_encode_body_flat(bit, st) ==
    IF bit = 1
    THEN [level |-> st.level, encoded |-> st.encoded \o <<1 - st.level, st.level>>]
    ELSE [level |-> st.level, encoded |-> st.encoded \o <<st.level, st.level>>]

biphase_mark_encode_body(bit, st) ==
    LET start == IF bit = 1 THEN 1 - st.level ELSE st.level
    IN  [level |-> 1 - start, encoded |-> st.encoded \o <<start, 1 - start>>]

biphase_mark_encode(data) ==
    ForEach(biphase_mark_encode_body, data, 1, [level |-> 0, encoded |-> <<>>]).encoded

\* mutant: the start transition is made for a 1 bit, as in Biphase-Mark
biphase_space_encode_body_marking(bit, st) ==
    LET start == IF bit = 1 THEN 1 - st.level ELSE st.level
    IN  [level |-> 1 - start, encoded |-> st.encoded \o <<start, 1 - start>>]

biphase_space_encode_body(bit, st) ==
    LET start == IF bit = 0 THEN 1 - st.level ELSE st.level
    IN  [level |-> 1 - start, encoded |-> st.encoded \o <<start, 1 - start>>]

biphase_space_encode(data) ==
    ForEach(biphase_space_encode_body, data, 1, [level |-> 0, encoded |-> <<>>]).encoded

\* mutant: the 1 branch forgets to append the level after the mid transition
differential_manchester_encode_body_half(bit, st) ==
    IF bit = 0
    THEN [level |-> 1 - st.level, encoded |-> st.encoded \o <<st.level, 1 - st.level>>]
    ELSE LET start == 1 - st.level
         IN  [level |-> 1 - start, encoded |-> Append(st.encoded, start)]

differential_manchester_encode_body(bit, st) ==
    IF bit = 0
    THEN [level |-> 1 - st.level, encoded |-> st.encoded \o <<st.level, 1 - st.level>>]
    ELSE LET start == 1 - st.level
         IN  [level |-> 1 - start, encoded |-> st.encoded \o <<start, 1 - start>>]

differential_manchester_encode(data) ==
    ForEach(differential_manchester_encode_body, data, 1,
            [level |-> 0, encoded |-> <<>>]).encoded

(***************************************************************************)
(* Decoders.  At(data, i) is Python's data[i] (0-based).  While runs a     *)
(* "while i < len(data) - margin" loop whose body advances st.i.           *)
(***************************************************************************)
At(data, i) == data[i + 1]

RECURSIVE While(_, _, _, _)
While(Body(_, _), data, margin, st) ==
    IF st.i < Len(data) - margin
    THEN While(Body, data, margin, Body(data, st))
    ELSE st

\* mutant: the two valid transitions are swapped
manchester_decode_body_swapped(data, st) ==
    LET i == st.i
        decoded == st.decoded
    IN  IF At(data, i) = 0 /\ At(data, i + 1) = 1
        THEN [st EXCEPT !.decoded = Append(@, 1), !.i = @ + 2]
        ELSE IF At(data, i) = 1 /\ At(data, i + 1) = 0
        THEN [st EXCEPT !.decoded = Append(@, 0), !.i = @ + 2]
        ELSE [i |-> i + 2,
              decoded |-> IF decoded # <<>>
                          THEN Append(decoded, decoded[Len(decoded)])
                          ELSE Append(decoded, 0),
              printed |-> Append(st.printed, [kind |-> "erro", val |-> i])]

\* mutant: the recovery branch does not advance the index
manchester_decode_body_stuck(data, st) ==
    LET i == st.i
    IN  IF At(data, i) = 0 /\ At(data, i + 1) = 1
        THEN [st EXCEPT !.decoded = Append(@, 0), !.i = @ + 2]
        ELSE IF At(data, i) = 1 /\ At(data, i + 1) = 0
        THEN [st EXCEPT !.decoded = Append(@, 1), !.i = @ + 2]
        ELSE [st EXCEPT !.printed = Append(@, [kind |-> "erro", val |-> i])]

\* mutant: an invalid pair emits no bit (the decoder of src/teste.py)
manchester_decode_body_skipping(data, st) ==
    LET i == st.i
    IN  IF At(data, i) = 0 /\ At(data, i + 1) = 1
        THEN [st EXCEPT !.decoded = Append(@, 0), !.i = @ + 2]
        ELSE IF At(data, i) = 1 /\ At(data, i + 1) = 0
        THEN [st EXCEPT !.decoded = Append(@, 1), !.i = @ + 2]
        ELSE [st EXCEPT !.i = @ + 2,
                        !.printed = Append(@, [kind |-> "erro", val |-> i])]

manchester_decode_body(data, st) ==
    LET i == st.i
        decoded == st.decoded
    IN  IF At(data, i) = 0 /\ At(data, i + 1) = 1
        THEN [st EXCEPT !.decoded = Append(@, 0), !.i = @ + 2]
        ELSE IF At(data, i) = 1 /\ At(data, i + 1) = 0
        THEN [st EXCEPT !.decoded = Append(@, 1), !.i = @ + 2]
        ELSE [i |-> i + 2,
              decoded |-> IF decoded # <<>>
                          THEN Append(decoded, decoded[Len(decoded)])
                          ELSE Append(decoded, 0),
              printed |-> Append(st.printed, [kind |-> "erro", val |-> i])]

\* mutant: the length test is dropped, a full frame gets 8 more bits
manchester_decode_padding_always(st) ==
    LET padding_needed == 8 - (Len(st.decoded) % 8)
    IN  [st EXCEPT !.decoded = @ \o Zeros(padding_needed),
                   !.printed = Append(@, [kind |-> "padding",
                                          val |-> padding_needed])]

\* mutant: the padding is appended without being reported
manchester_decode_padding_silent(st) ==
    IF Len(st.decoded) % 8 # 0
    THEN [st EXCEPT !.decoded = @ \o Zeros(8 - (Len(st.decoded) % 8))]
    ELSE st

\* mutant: the count is taken from 8 without the modulo
manchester_decode_padding_short(st) ==
    IF Len(st.decoded) % 8 # 0
    THEN LET padding_needed == Max(0, 8 - Len(st.decoded))
         IN  [st EXCEPT !.decoded = @ \o Zeros(padding_needed),
                        !.printed = Append(@, [kind |-> "padding",
                                               val |-> padding_needed])]
    ELSE st

\* mutant: the padding is made of 1 bits
manchester_decode_padding_ones(st) ==
    IF Len(st.decoded) % 8 # 0
    THEN LET padding_needed == 8 - (Len(st.decoded) % 8)
         IN  [st EXCEPT !.decoded = @ \o [j \in 1..padding_needed |-> 1],
                        !.printed = Append(@, [kind |-> "padding",
                                               val |-> padding_needed])]
    ELSE st

manchester_decode_padding(st) ==
    IF Len(st.decoded) % 8 # 0
    THEN LET padding_needed == 8 - (Len(st.decoded) % 8)
         IN  [st EXCEPT !.decoded = @ \o Zeros(padding_needed),
                        !.printed = Append(@, [kind |-> "padding",
                                               val |-> padding_needed])]
    ELSE st

\* mutant: an invalid pair repeats the last decoded bit, as in src/teste1.py
teste_manchester_decode_body_recovering(data, st) ==
    LET i == st.i
        decoded == st.decoded
    IN  IF At(data, i) = 0 /\ At(data, i + 1) = 1
        THEN [st EXCEPT !.decoded = Append(@, 0), !.i = @ + 2]
        ELSE IF At(data, i) = 1 /\ At(data, i + 1) = 0
        THEN [st EXCEPT !.decoded = Append(@, 1), !.i = @ + 2]
        ELSE [i |-> i + 2,
              decoded |-> IF decoded # <<>>
                          THEN Append(decoded, decoded[Len(decoded)])
                          ELSE Append(decoded, 0),
              printed |-> Append(st.printed, [kind |-> "erro", val |-> i])]

\* the loop body of manchester_decode in src/teste.py: an invalid pair is
\* reported and nothing is appended for it
teste_manchester_decode_body(data, st) ==
    LET i == st.i
    IN  IF At(data, i) = 0 /\ At(data, i + 1) = 1
        THEN [st EXCEPT !.decoded = Append(@, 0), !.i = @ + 2]
        ELSE IF At(data, i) = 1 /\ At(data, i + 1) = 0
        THEN [st EXCEPT !.decoded = Append(@, 1), !.i = @ + 2]
        ELSE [st EXCEPT !.i = @ + 2,
                        !.printed = Append(@, [kind |-> "erro", val |-> i])]

\* manchester_decode of src/teste.py: the loop only, "return decoded" follows it
teste_manchester_decode(data) ==
    LET st == While(teste_manchester_decode_body, data, 1,
                    [i |-> 0, decoded |-> <<>>, printed |-> <<>>])
    IN  [decoded |-> st.decoded, printed |-> st.printed]

\* returns [decoded, printed]: the returned list and the messages printed
manchester_decode(data) ==
    LET st == manchester_decode_padding(
                  While(manchester_decode_body, data, 1,
                        [i |-> 0, decoded |-> <<>>, printed |-> <<>>]))
    IN  [decoded |-> st.decoded, printed |-> st.printed]

nrz_decode(data) == [decoded |-> data, printed |-> <<>>]

RECURSIVE ForRange(_, _, _, _)
ForRange(Body(_, _, _), data, i, st) ==
    IF i >= Len(data) THEN st
    ELSE ForRange(Body, data, i + 1, Body(data, i, st))

nrzi_decode_body(data, i, st) ==
    IF At(data, i) # At(data, i - 1)
    THEN [st EXCEPT !.decoded = Append(@, 1)]
    ELSE [st EXCEPT !.decoded = Append(@, 0)]

\* mutant: the loop starts at index 2
nrzi_decode_late(data) ==
    [decoded |-> ForRange(nrzi_decode_body, data, 2, [decoded |-> <<>>]).decoded,
     printed |-> <<>>]

nrzi_decode(data) ==
    [decoded |-> ForRange(nrzi_decode_body, data, 1, [decoded |-> <<>>]).decoded,
     printed |-> <<>>]

\* mutant: only +1 is taken as a mark
ami_decode_body_positive(level, st) ==
    IF level = 1
    THEN [st EXCEPT !.decoded = Append(@, 1)]
    ELSE [st EXCEPT !.decoded = Append(@, 0)]

ami_decode_body(level, st) ==
    IF level = 0
    THEN [st EXCEPT !.decoded = Append(@, 0)]
    ELSE [st EXCEPT !.decoded = Append(@, 1)]

ami_decode(data) ==
    [decoded |-> ForEach(ami_decode_body, data, 1, [decoded |-> <<>>]).decoded,
     printed |-> <<>>]

\* mutant: the i > 0 test is dropped, so symbol 0 is compared with
\* encoded_data[-1], the last level
biphase_mark_decode_body_wrapping(data, st) ==
    IF (IF st.i > 0 THEN At(data, st.i - 1) ELSE data[Len(data)]) # At(data, st.i)
    THEN [st EXCEPT !.decoded = Append(@, 1), !.i = @ + 2]
    ELSE [st EXCEPT !.decoded = Append(@, 0), !.i = @ + 2]

biphase_mark_decode_body(data, st) ==
    IF st.i > 0 /\ At(data, st.i - 1) # At(data, st.i)
    THEN [st EXCEPT !.decoded = Append(@, 1), !.i = @ + 2]
    ELSE [st EXCEPT !.decoded = Append(@, 0), !.i = @ + 2]

biphase_mark_decode(data) ==
    [decoded |-> While(biphase_mark_decode_body, data, 1,
                       [i |-> 0, decoded |-> <<>>]).decoded,
     printed |-> <<>>]

biphase_space_decode_body(data, st) ==
    IF st.i > 0 /\ At(data, st.i - 1) # At(data, st.i)
    THEN [st EXCEPT !.decoded = Append(@, 0), !.i = @ + 2]
    ELSE [st EXCEPT !.decoded = Append(@, 1), !.i = @ + 2]

biphase_space_decode(data) ==
    [decoded |-> While(biphase_space_decode_body, data, 1,
                       [i |-> 0, decoded |-> <<>>]).decoded,
     printed |-> <<>>]

\* mutant: equal first levels decode to 0 and different ones to 1
differential_manchester_decode_body_inverted(data, st) ==
    LET current_first == At(data, st.i)
        next_first == At(data, st.i + 2)
        reads == st.reads \cup {st.i, st.i + 2}
    IN  IF current_first = next_first
        THEN [st EXCEPT !.decoded = Append(@, 0), !.i = @ + 2, !.reads = reads]
        ELSE [st EXCEPT !.decoded = Append(@, 1), !.i = @ + 2, !.reads = reads]

\* st.reads collects the indices of data the loop has read
differential_manchester_decode_body(data, st) ==
    LET current_first == At(data, st.i)
        next_first == At(data, st.i + 2)
        reads == st.reads \cup {st.i, st.i + 2}
    IN  IF current_first = next_first
        THEN [st EXCEPT !.decoded = Append(@, 1), !.i = @ + 2, !.reads = reads]
        ELSE [st EXCEPT !.decoded = Append(@, 0), !.i = @ + 2, !.reads = reads]

\* mutant: the loop bound is len(encoded_data) - 2
differential_manchester_decode_long(data) ==
    LET st == While(differential_manchester_decode_body, data, 2,
                    [i |-> 0, decoded |-> <<>>, reads |-> {}])
    IN  [decoded |-> st.decoded, printed |-> <<>>, reads |-> st.reads]

differential_manchester_decode(data) ==
    LET st == While(differential_manchester_decode_body, data, 3,
                    [i |-> 0, decoded |-> <<>>, reads |-> {}])
    IN  [decoded |-> st.decoded, printed |-> <<>>, reads |-> st.reads]

(***************************************************************************)
(* TransmissionSystem.simulate_channel.  draws[p] is the value, in         *)
(* percent, np.random.random() returns for element p.                      *)
(***************************************************************************)
\* mutant: a level that is neither 0 nor 1 is negated instead of zeroed
simulate_channel_negating(data, noise, draws) ==
    IF noise <= 0
    THEN data
    ELSE [p \in 1..Len(data) |->
            IF draws[p] < noise
            THEN IF data[p] = 0 THEN 1
                 ELSE IF data[p] = 1 THEN 0
                 ELSE -data[p]
            ELSE data[p]]

simulate_channel(data, noise, draws) ==
    IF noise <= 0
    THEN data
    ELSE [p \in 1..Len(data) |->
            IF draws[p] < noise
            THEN IF data[p] = 0 THEN 1
                 ELSE IF data[p] = 1 THEN 0
                 ELSE 0
            ELSE data[p]]

\* mutant: for noise <= 0 the argument itself is returned, without .copy()
simulate_channel_object_aliasing(arg, noise, fresh) ==
    IF noise <= 0 THEN arg ELSE fresh

\* the list object simulate_channel returns: arg is its argument, fresh a
\* new list (encoded_data.copy() for noise <= 0, noisy_data = [] otherwise)
simulate_channel_object(arg, noise, fresh) ==
    IF noise <= 0 THEN fresh ELSE fresh

\* the body of simulate_channel's for loop; draw is the value, in percent,
\* np.random.random() returns in this iteration
simulate_channel_body(bit, draw, noise, st) ==
    IF draw < noise
    THEN IF bit = 0 THEN [st EXCEPT !.noisy_data = Append(@, 1)]
         ELSE IF bit = 1 THEN [st EXCEPT !.noisy_data = Append(@, 0)]
         ELSE [st EXCEPT !.noisy_data = Append(@, 0)]
    ELSE [st EXCEPT !.noisy_data = Append(@, bit)]

RECURSIVE SubsetsUpTo(_, _)
SubsetsUpTo(S, k) ==
    IF k = 0 THEN {{}}
    ELSE LET prev == SubsetsUpTo(S, k - 1)
         IN  prev \cup {F \cup {x} : F \in prev, x \in S}

\* the draw vectors, 0 for a draw near 0.0 and 99 for a draw near 1.0, with
\* at most MaxFlips low draws
DrawSeqs(n) ==
    {[p \in 1..n |-> IF p \in F THEN 0 ELSE 99] :
        F \in SubsetsUpTo(1..n, MaxFlips)}

(***************************************************************************)
(* DigitalEncoder.__init__ and the dispatch of encode / decode.            *)
(***************************************************************************)
InitEncodingMethods ==
    [m \in RegisteredMethods |->
        CASE m = "Manchester" -> "manchester_encode"
          [] m = "NRZ" -> "nrz_encode"
          [] m = "NRZI" -> "nrzi_encode"
          [] m = "AMI" -> "ami_encode"
          [] m = "Biphase_Mark" -> "biphase_mark_encode"
          [] m = "Biphase_Space" -> "biphase_space_encode"
          [] m = "Differential_Manchester" -> "differential_manchester_encode"]

InitDecodingMethods ==
    [m \in RegisteredMethods |->
        CASE m = "Manchester" -> "manchester_decode"
          [] m = "NRZ" -> "nrz_decode"
          [] m = "NRZI" -> "nrzi_decode"
          [] m = "AMI" -> "ami_decode"
          [] m = "Biphase_Mark" -> "biphase_mark_decode"
          [] m = "Biphase_Space" -> "biphase_space_decode"
          [] m = "Differential_Manchester" -> "differential_manchester_decode"]

\* the bound method fn applied to data
RunEncoder(fn, data) ==
    CASE fn = "manchester_encode" -> manchester_encode(data)
      [] fn = "nrz_encode" -> nrz_encode(data)
      [] fn = "nrzi_encode" -> nrzi_encode(data)
      [] fn = "ami_encode" -> ami_encode(data)
      [] fn = "biphase_mark_encode" -> biphase_mark_encode(data)
      [] fn = "biphase_space_encode" -> biphase_space_encode(data)
      [] fn = "differential_manchester_encode" -> differential_manchester_encode(data)

RunDecoder(fn, data) ==
    CASE fn = "manchester_decode" -> manchester_decode(data)
      [] fn = "nrz_decode" -> nrz_decode(data)
      [] fn = "nrzi_decode" -> nrzi_decode(data)
      [] fn = "ami_decode" -> ami_decode(data)
      [] fn = "biphase_mark_decode" -> biphase_mark_decode(data)
      [] fn = "biphase_space_decode" -> biphase_space_decode(data)
      [] fn = "differential_manchester_decode" -> differential_manchester_decode(data)

\* mutant: nrz_decode returns a copy of its argument
scheme_object_copying(fn, arg, fresh) == fresh

\* the list object a scheme function returns: every one builds a new list
\* (encoded = [], decoded = []) except nrz_decode, which returns its argument
scheme_object(fn, arg, fresh) ==
    IF fn = "nrz_decode" THEN arg ELSE fresh

\* a list object that does not exist yet
Fresh == 1 + Max(Max(obj.binary_data, obj.encoded_data),
                 Max(obj.transmitted_data, obj.decoded_data))

\* DigitalEncoder.encode: [error, ran, result]
encode(data, m) ==
    IF m \notin DOMAIN encoding_methods
    THEN [error |-> "ValueError", ran |-> <<>>, result |-> <<>>, printed |-> <<>>]
    ELSE [error |-> "none", ran |-> <<encoding_methods[m]>>,
          result |-> RunEncoder(encoding_methods[m], data), printed |-> <<>>]

\* mutant: an unknown name falls back to Manchester instead of raising
decode_defaulting(data, m) ==
    LET fn == IF m \in DOMAIN decoding_methods
              THEN decoding_methods[m] ELSE decoding_methods["Manchester"]
        r == RunDecoder(fn, data)
    IN  [error |-> "none", ran |-> <<fn>>, result |-> r.decoded,
         printed |-> r.printed,
         reads |-> IF "reads" \in DOMAIN r THEN r.reads ELSE {}]

\* DigitalEncoder.decode: [error, ran, result, printed]
decode(data, m) ==
    IF m \notin DOMAIN decoding_methods
    THEN [error |-> "ValueError", ran |-> <<>>, result |-> <<>>, printed |-> <<>>,
          reads |-> {}]
    ELSE LET r == RunDecoder(decoding_methods[m], data)
         IN  [error |-> "none", ran |-> <<decoding_methods[m]>>,
              result |-> r.decoded, printed |-> r.printed,
              reads |-> IF "reads" \in DOMAIN r THEN r.reads ELSE {}]

\* the locals level (lines 72, 109, 132, 155) and last_polarity (line 90) as
\* the scheme functions initialise them
InitialLocals == [level |-> 0, last_polarity |-> 1]

\* the values of these locals when scheme function fn returns from data;
\* prev is kept for a local that fn does not have
FinalLocals(fn, data, prev) ==
    LET start == [level |-> InitialLocals.level, encoded |-> <<>>]
    IN  CASE fn = "nrzi_encode" ->
                [prev EXCEPT !.level = ForEach(nrzi_encode_body, data, 1, start).level]
          [] fn = "biphase_mark_encode" ->
                [prev EXCEPT !.level =
                    ForEach(biphase_mark_encode_body, data, 1, start).level]
          [] fn = "biphase_space_encode" ->
                [prev EXCEPT !.level =
                    ForEach(biphase_space_encode_body, data, 1, start).level]
          [] fn = "differential_manchester_encode" ->
                [prev EXCEPT !.level =
                    ForEach(differential_manchester_encode_body, data, 1, start).level]
          [] fn = "ami_encode" ->
                [prev EXCEPT !.last_polarity =
                    ForEach(ami_encode_body, data, 1,
                            [last_polarity |-> InitialLocals.last_polarity,
                             encoded |-> <<>>]).last_polarity]
          [] OTHER -> prev

NoCall == [fn |-> "none", method |-> "none", data |-> <<>>, result |-> <<>>]

\* the callers of SpecSteps and SpecThreads
Threads == {"t1", "t2"}

\* the frame of a caller that is in no call
NoFrame == [pc |-> "idle", i |-> 0, n |-> 0, st |-> [none |-> 0],
            result |-> <<>>, printed |-> <<>>, mixed |-> FALSE]

(***************************************************************************)
(* The caller session.                                                     *)
(***************************************************************************)
Init ==
    /\ encoding_methods = InitEncodingMethods
    /\ decoding_methods = InitDecodingMethods
    /\ calls = <<>>
    /\ ran = <<>>
    /\ method \in MethodNames
    /\ noise_level = 0
    /\ transmitted_data = <<>>
    /\ decoded_data = <<>>
    /\ printed = <<>>
    /\ error = "none"
    /\ dm_reads = {}
    /\ first_call = NoCall
    /\ last_call = NoCall
    /\ left = InitialLocals
    /\ call = [t \in Threads |-> NoCall]
    /\ frame = [t \in Threads |-> NoFrame]
    /\ \/ /\ pc = "start"                  \* the caller holds bits to encode
          /\ binary_data \in BitSeqs \cup ValueSeqs
          /\ encoded_data = <<>>
          /\ obj = [binary_data |-> 1, encoded_data |-> 0,
                    transmitted_data |-> 0, decoded_data |-> 0]
       \/ /\ pc = "encoded"                \* the caller holds levels to decode
          /\ binary_data = <<>>
          /\ encoded_data \in ValueSeqs
          /\ obj = [binary_data |-> 0, encoded_data |-> 1,
                    transmitted_data |-> 0, decoded_data |-> 0]

\* encoded = self.encoder.encode(binary_data, method)
Encode ==
    /\ pc = "start"
    /\ LET r == encode(binary_data, method)
       IN  /\ calls' = Append(calls, "encode")
           /\ ran' = ran \o r.ran
           /\ error' = r.error
           /\ encoded_data' = r.result
           /\ obj' = IF r.error = "none"
                     THEN [obj EXCEPT !.encoded_data =
                              scheme_object(r.ran[1], obj.binary_data, Fresh)]
                     ELSE obj
           /\ pc' = IF r.error = "none" THEN "encoded" ELSE "raised"
    /\ UNCHANGED <<encoding_methods, decoding_methods, method, binary_data,
                   noise_level, transmitted_data, decoded_data, printed,
                   dm_reads>>
    /\ UNCHANGED callVars
    /\ UNCHANGED threadVars

\* transmitted_data = self.simulate_channel(encoded_data, noise_level)
SimulateChannel ==
    /\ pc = "encoded"
    /\ \E noise \in NoiseLevels, draws \in DrawSeqs(Len(encoded_data)) :
          /\ noise_level' = noise
          /\ transmitted_data' = simulate_channel(encoded_data, noise, draws)
          /\ obj' = [obj EXCEPT !.transmitted_data =
                        simulate_channel_object(obj.encoded_data, noise, Fresh)]
    /\ calls' = Append(calls, "simulate_channel")
    /\ pc' = "received"
    /\ UNCHANGED <<encoding_methods, decoding_methods, ran, method, binary_data,
                   encoded_data, decoded_data, printed, error, dm_reads>>
    /\ UNCHANGED callVars
    /\ UNCHANGED threadVars

\* the list the caller hands to decode: transmit passes transmitted_data,
\* main_menu's example branch passes encoded
Received ==
    IF \E k \in 1..Len(calls) : calls[k] = "simulate_channel"
    THEN transmitted_data
    ELSE encoded_data

\* decoded = self.encoder.decode(<received>, method)
Decode ==
    /\ pc \in {"encoded", "received"}
    /\ LET r == decode(IF pc = "received" THEN transmitted_data ELSE encoded_data,
                       method)
       IN  /\ calls' = Append(calls, "decode")
           /\ ran' = ran \o r.ran
           /\ error' = r.error
           /\ decoded_data' = r.result
           /\ printed' = printed \o r.printed
           /\ dm_reads' = r.reads
           /\ obj' = IF r.error = "none"
                     THEN [obj EXCEPT !.decoded_data =
                              scheme_object(r.ran[1],
                                  IF pc = "received" THEN obj.transmitted_data
                                  ELSE obj.encoded_data, Fresh)]
                     ELSE obj
           /\ pc' = IF r.error = "none" THEN "decoded" ELSE "raised"
    /\ UNCHANGED <<encoding_methods, decoding_methods, method, binary_data,
                   encoded_data, noise_level, transmitted_data>>
    /\ UNCHANGED callVars
    /\ UNCHANGED threadVars

Next == Encode \/ SimulateChannel \/ Decode

Spec == Init /\ [][Next]_vars

(***************************************************************************)
(* SpecCalls: up to MaxCalls encode and decode calls, of any registered    *)
(* scheme and in any order, on one DigitalEncoder instance.                *)
(***************************************************************************)
InitCalls ==
    /\ encoding_methods = InitEncodingMethods
    /\ decoding_methods = InitDecodingMethods
    /\ pc = "start"
    /\ calls = <<>>
    /\ ran = <<>>
    /\ method = "Manchester"
    /\ binary_data = <<>>
    /\ encoded_data = <<>>
    /\ noise_level = 0
    /\ transmitted_data = <<>>
    /\ decoded_data = <<>>
    /\ printed = <<>>
    /\ error = "none"
    /\ obj = [binary_data |-> 0, encoded_data |-> 0,
              transmitted_data |-> 0, decoded_data |-> 0]
    /\ dm_reads = {}
    /\ first_call = NoCall
    /\ last_call = NoCall
    /\ left = InitialLocals
    /\ call = [t \in Threads |-> NoCall]
    /\ frame = [t \in Threads |-> NoFrame]

\* the call fn(data, m) with outcome r made on the encoder
Called(fn, m, data, r) ==
    LET made == [fn |-> fn, method |-> m, data |-> data, result |-> r.result]
    IN  /\ Len(calls) < MaxCalls
        /\ calls' = Append(calls, fn)
        /\ last_call' = made
        /\ first_call' = IF calls = <<>> THEN made ELSE first_call
        /\ left' = IF r.ran = <<>> THEN left ELSE FinalLocals(r.ran[1], data, left)
        /\ UNCHANGED <<encoding_methods, decoding_methods, pc, ran, method,
                       binary_data, encoded_data, noise_level, transmitted_data,
                       decoded_data, printed, error, obj, dm_reads>>
        /\ UNCHANGED threadVars

\* self.encoder.encode(data, m)
CallEncode ==
    \E m \in RegisteredMethods, data \in CallSeqs :
        Called("encode", m, data, encode(data, m))

\* self.encoder.decode(data, m)
CallDecode ==
    \E m \in RegisteredMethods, data \in CallSeqs :
        Called("decode", m, data, decode(data, m))

NextCalls == CallEncode \/ CallDecode

SpecCalls == InitCalls /\ [][NextCalls]_vars

(***************************************************************************)
(* SpecTeste: the Manchester session of src/teste.py, whose DigitalEncoder *)
(* and TransmissionSystem differ from those of src/teste1.py in            *)
(* manchester_decode only.                                                 *)
(***************************************************************************)
InitTeste ==
    /\ encoding_methods = InitEncodingMethods
    /\ decoding_methods = InitDecodingMethods
    /\ calls = <<>>
    /\ ran = <<>>
    /\ method = "Manchester"
    /\ noise_level = 0
    /\ transmitted_data = <<>>
    /\ decoded_data = <<>>
    /\ printed = <<>>
    /\ error = "none"
    /\ dm_reads = {}
    /\ first_call = NoCall
    /\ last_call = NoCall
    /\ left = InitialLocals
    /\ call = [t \in Threads |-> NoCall]
    /\ frame = [t \in Threads |-> NoFrame]
    /\ \/ /\ pc = "start"
          /\ binary_data \in BitSeqs
          /\ encoded_data = <<>>
          /\ obj = [binary_data |-> 1, encoded_data |-> 0,
                    transmitted_data |-> 0, decoded_data |-> 0]
       \/ /\ pc = "encoded"
          /\ binary_data = <<>>
          /\ encoded_data \in ValueSeqs \cup TesteLevelSeqs
          /\ obj = [binary_data |-> 0, encoded_data |-> 1,
                    transmitted_data |-> 0, decoded_data |-> 0]

\* decoded = self.encoder.decode(<received>, "Manchester") in src/teste.py
DecodeTeste ==
    /\ pc \in {"encoded", "received"}
    /\ method = "Manchester"
    /\ LET r == teste_manchester_decode(
                    IF pc = "received" THEN transmitted_data ELSE encoded_data)
       IN  /\ decoded_data' = r.decoded
           /\ printed' = printed \o r.printed
    /\ calls' = Append(calls, "decode")
    /\ ran' = Append(ran, decoding_methods[method])
    /\ error' = "none"
    /\ dm_reads' = {}
    /\ obj' = [obj EXCEPT !.decoded_data = Fresh]
    /\ pc' = "decoded"
    /\ UNCHANGED <<encoding_methods, decoding_methods, method, binary_data,
                   encoded_data, noise_level, transmitted_data>>
    /\ UNCHANGED callVars
    /\ UNCHANGED threadVars

NextTeste == Encode \/ SimulateChannel \/ DecodeTeste

SpecTeste == InitTeste /\ [][NextTeste]_vars

(***************************************************************************)
(* The calls run one loop iteration at a time.  A caller enters a call     *)
(* (its frame gets the function's initial locals), runs the iterations of  *)
(* the function's loop one by one, and returns.  SpecSteps runs one call;  *)
(* SpecThreads runs the calls of two callers on the same DigitalEncoder    *)
(* with their iterations interleaved in any order.                         *)
(***************************************************************************)
CodecOps == {"encode", "decode"}
AllOps == CodecOps \cup {"simulate_channel"}

\* the function a call runs: encode and decode dispatch on the scheme name
FunctionOf(c) ==
    CASE c.op = "encode" -> encoding_methods[c.method]
      [] c.op = "decode" -> decoding_methods[c.method]
      [] c.op = "simulate_channel" -> "simulate_channel"

\* the functions whose loop is "while i < len(encoded_data) - margin"
WhileLoops == {"manchester_decode", "biphase_mark_decode", "biphase_space_decode",
               "differential_manchester_decode"}
Margin(fn) == IF fn = "differential_manchester_decode" THEN 3 ELSE 1

\* the locals a function starts with
InitialState(fn) ==
    CASE fn \in {"manchester_encode", "nrz_encode"} -> [encoded |-> <<>>]
      [] fn \in {"nrzi_encode", "biphase_mark_encode", "biphase_space_encode",
                 "differential_manchester_encode"} ->
            [level |-> InitialLocals.level, encoded |-> <<>>]
      [] fn = "ami_encode" ->
            [last_polarity |-> InitialLocals.last_polarity, encoded |-> <<>>]
      [] fn = "manchester_decode" -> [i |-> 0, decoded |-> <<>>, printed |-> <<>>]
      [] fn \in {"biphase_mark_decode", "biphase_space_decode"} ->
            [i |-> 0, decoded |-> <<>>]
      [] fn = "differential_manchester_decode" ->
            [i |-> 0, decoded |-> <<>>, reads |-> {}]
      [] fn \in {"nrz_decode", "nrzi_decode", "ami_decode"} -> [decoded |-> <<>>]
      [] fn = "simulate_channel" -> [noisy_data |-> <<>>]

\* the frame of a call that has just been entered; i is the index of the
\* element the loop is at (range(1, len) starts at 1)
EnterFrame(c) ==
    [pc |-> "loop", i |-> IF FunctionOf(c) = "nrzi_decode" THEN 1 ELSE 0, n |-> 0,
     st |-> InitialState(FunctionOf(c)),
     result |-> <<>>, printed |-> <<>>, mixed |-> FALSE]

\* the loop of call c has another iteration to run from frame f
LoopCondition(c, f) ==
    LET fn == FunctionOf(c)
    IN  CASE fn \in WhileLoops -> f.st.i < Len(c.data) - Margin(fn)
          [] fn = "nrz_decode" -> FALSE
          [] fn = "simulate_channel" -> c.noise > 0 /\ f.i < Len(c.data)
          [] OTHER -> f.i < Len(c.data)

\* the locals after one iteration of the loop of call c run on locals st
LoopBody(c, i, st, draw) ==
    LET fn == FunctionOf(c)
        data == c.data
    IN  CASE fn = "manchester_encode" -> manchester_encode_body(At(data, i), st)
          [] fn = "nrz_encode" -> nrz_encode_body(At(data, i), st)
          [] fn = "nrzi_encode" -> nrzi_encode_body(At(data, i), st)
          [] fn = "ami_encode" -> ami_encode_body(At(data, i), st)
          [] fn = "biphase_mark_encode" -> biphase_mark_encode_body(At(data, i), st)
          [] fn = "biphase_space_encode" -> biphase_space_encode_body(At(data, i), st)
          [] fn = "differential_manchester_encode" ->
                differential_manchester_encode_body(At(data, i), st)
          [] fn = "manchester_decode" -> manchester_decode_body(data, st)
          [] fn = "nrzi_decode" -> nrzi_decode_body(data, i, st)
          [] fn = "ami_decode" -> ami_decode_body(At(data, i), st)
          [] fn = "biphase_mark_decode" -> biphase_mark_decode_body(data, st)
          [] fn = "biphase_space_decode" -> biphase_space_decode_body(data, st)
          [] fn = "differential_manchester_decode" ->
                differential_manchester_decode_body(data, st)
          [] fn = "simulate_channel" ->
                simulate_channel_body(At(data, i), draw, c.noise, st)

\* what call c returns, and has printed, when its loop ends with locals st
ReturnValue(c, st) ==
    LET fn == FunctionOf(c)
    IN  CASE fn = "manchester_decode" ->
                LET p == manchester_decode_padding(st)
                IN  [result |-> p.decoded, printed |-> p.printed]
          [] fn = "nrz_decode" -> [result |-> c.data, printed |-> <<>>]
          [] fn = "simulate_channel" ->
                [result |-> IF c.noise <= 0 THEN c.data ELSE st.noisy_data,
                 printed |-> <<>>]
          [] c.op = "encode" -> [result |-> st.encoded, printed |-> <<>>]
          [] OTHER -> [result |-> st.decoded, printed |-> <<>>]

\* mutant: level is read from the frame of another call that is running a
\* loop with a level, as it would be if level were an attribute of the
\* encoder that the calls share
Locals_sharing(t) ==
    LET others == {u \in Threads \ {t} :
                      frame[u].pc = "loop" /\ "level" \in DOMAIN frame[u].st}
    IN  IF "level" \in DOMAIN frame[t].st /\ others # {}
        THEN [frame[t].st EXCEPT !.level = frame[CHOOSE u \in others : TRUE].st.level]
        ELSE frame[t].st

\* the locals the loop of caller t's call acts on: those of its own frame
Locals(t) == frame[t].st

\* some other caller's call is between two iterations of its loop
OtherMidLoop(t) ==
    \E u \in Threads \ {t} :
        /\ frame[u].pc = "loop" /\ frame[u].n >= 1
        /\ LoopCondition(call[u], frame[u])

\* caller t calls op(data, method) or simulate_channel(data, noise)
EnterCall(t, ops, seqs) ==
    /\ frame[t].pc = "idle"
    /\ \E op \in ops, m \in RegisteredMethods, data \in seqs, noise \in NoiseLevels :
          /\ op = "simulate_channel" => m = "Manchester"
          /\ op # "simulate_channel" => noise = 0
          /\ LET c == [op |-> op, method |-> m, data |-> data, noise |-> noise]
             IN  /\ call' = [call EXCEPT ![t] = c]
                 /\ frame' = [frame EXCEPT ![t] = EnterFrame(c)]
    /\ UNCHANGED <<sessionVars, callVars>>

\* one iteration of the loop of caller t's call
Iterate(t) ==
    /\ frame[t].pc = "loop"
    /\ LoopCondition(call[t], frame[t])
    /\ \E draw \in IF call[t].op = "simulate_channel" THEN {0, 99} ELSE {0} :
          LET st == LoopBody(call[t], frame[t].i, Locals(t), draw)
          IN  frame' = [frame EXCEPT
                  ![t].st = st,
                  ![t].i = IF FunctionOf(call[t]) \in WhileLoops THEN st.i ELSE @ + 1,
                  ![t].n = @ + 1,
                  ![t].mixed = @ \/ OtherMidLoop(t)]
    /\ UNCHANGED <<call, sessionVars, callVars>>

\* the loop of caller t's call has ended: the call returns
Return(t) ==
    /\ frame[t].pc = "loop"
    /\ ~LoopCondition(call[t], frame[t])
    /\ LET r == ReturnValue(call[t], frame[t].st)
       IN  frame' = [frame EXCEPT ![t].pc = "done",
                                  ![t].result = r.result,
                                  ![t].printed = r.printed]
    /\ UNCHANGED <<call, sessionVars, callVars>>

StepCall == EnterCall("t1", AllOps, StepSeqs)
StepIterate == Iterate("t1")
StepReturn == Return("t1")

NextSteps == StepCall \/ StepIterate \/ StepReturn

\* a call that has been entered keeps running: nothing in it waits
SpecSteps ==
    /\ InitCalls /\ [][NextSteps]_vars
    /\ WF_vars(StepIterate) /\ WF_vars(StepReturn)

ThreadCall == \E t \in Threads : EnterCall(t, CodecOps, ThreadSeqs)
ThreadIterate == \E t \in Threads : Iterate(t)
ThreadReturn == \E t \in Threads : Return(t)

NextThreads == ThreadCall \/ ThreadIterate \/ ThreadReturn

SpecThreads == InitCalls /\ [][NextThreads]_vars

TypeOK ==
    /\ pc \in {"start", "encoded", "received", "decoded", "raised"}
    /\ error \in {"none", "ValueError"}
    /\ method \in MethodNames
    /\ noise_level \in NoiseLevels

(***************************************************************************)
(* Properties.                                                             *)
(***************************************************************************)
EncodeCalled == Len(calls) >= 1 /\ calls[1] = "encode"
DecodeReturned == pc = "decoded"
Unmodified == Received = encoded_data
N == Len(binary_data)
L == Len(Received)
ValidPair(k) == \/ Received[2 * k - 1] = 0 /\ Received[2 * k] = 1
                \/ Received[2 * k - 1] = 1 /\ Received[2 * k] = 0
\* decode of the unmodified result of encode of a bit sequence has returned
RoundTripDone(m, minLen) ==
    /\ DecodeReturned /\ EncodeCalled /\ Unmodified
    /\ method = m /\ IsBits(binary_data) /\ N >= minLen

\* C1: Manchester round trip: for every bit sequence B of length N >= 1,
\* decode(encode(B)) is B followed by (8 - N mod 8) mod 8 padding zeros,
\* so removing the padding gives back B.
C1_ManchesterRoundTrip ==
    RoundTripDone("Manchester", 1) =>
        /\ decoded_data = binary_data \o Zeros((8 - (N % 8)) % 8)
        /\ SubSeq(decoded_data, 1, N) = binary_data

C1_Witness ==
    /\ RoundTripDone("Manchester", 1)
    /\ N = 8
    /\ binary_data[1] = 1 /\ binary_data[8] = 0
    /\ decoded_data = binary_data

\* C2: NRZI round trip as claimed: for every bit sequence B of length >= 1,
\* decode(encode(B)) = B; encode([1,1,0,1]) = [1,0,0,1] and
\* decode([1,0,0,1]) = [1,1,0,1].
C2_NRZIRoundTrip ==
    RoundTripDone("NRZI", 1) =>
        /\ decoded_data = binary_data
        /\ binary_data = <<1, 1, 0, 1>> => encoded_data = <<1, 0, 0, 1>>
        /\ Received = <<1, 0, 0, 1>> => decoded_data = <<1, 1, 0, 1>>

\* C3: Differential Manchester round trip as claimed: for every bit
\* sequence B of length >= 2, decode(encode(B)) = B.
C3_DiffManchesterRoundTrip ==
    RoundTripDone("Differential_Manchester", 2) => decoded_data = binary_data

\* C4: Biphase round trip as claimed: for every bit sequence B of length
\* >= 1, decode(encode(B)) = B under Biphase_Mark and under Biphase_Space,
\* whatever the first bit of B.
C4_BiphaseRoundTrip ==
    /\ RoundTripDone("Biphase_Mark", 1) => decoded_data = binary_data
    /\ RoundTripDone("Biphase_Space", 1) => decoded_data = binary_data

\* C5: AMI round trip: for every bit sequence B of any length,
\* decode(encode(B)) = B with the same length; level 0 decodes to bit 0 and
\* either of +1, -1 decodes to bit 1.
C5_AMIRoundTrip ==
    /\ RoundTripDone("AMI", 0) =>
          decoded_data = binary_data /\ Len(decoded_data) = N
    /\ (DecodeReturned /\ method = "AMI") =>
          /\ Len(decoded_data) = L
          /\ \A k \in 1..L :
                /\ Received[k] = 0 => decoded_data[k] = 0
                /\ Received[k] \in {1, -1} => decoded_data[k] = 1

C5_Witness ==
    /\ RoundTripDone("AMI", 3)
    /\ \E j, k \in 1..L : Received[j] = 1 /\ Received[k] = -1
    /\ \E k \in 1..L : Received[k] = 0
    /\ decoded_data = binary_data

\* C6: NRZ is the identity in both directions: encode(X, NRZ) and
\* decode(X, NRZ) have the length of X and the element of X at every position.
C6_NRZIdentity ==
    /\ (EncodeCalled /\ method = "NRZ") =>
          /\ Len(encoded_data) = N
          /\ \A k \in 1..N : encoded_data[k] = binary_data[k]
    /\ (DecodeReturned /\ method = "NRZ") =>
          /\ Len(decoded_data) = L
          /\ \A k \in 1..L : decoded_data[k] = Received[k]

C6_Witness ==
    /\ EncodeCalled /\ DecodeReturned /\ method = "NRZ"
    /\ N >= 3
    /\ \E j, k \in 1..N : binary_data[j] = 2 /\ binary_data[k] = -1
    /\ L = N

\* C7: Manchester decode-side recovery: for every level sequence, of any
\* length and values, manchester_decode does not raise or stop early; it
\* emits one bit per complete pair (floor(L/2) bits before the padding, a
\* trailing unpaired level ignored): (0,1) gives 0, (1,0) gives 1, any other
\* pair gives a copy of the bit emitted for the previous pair, or 0 for the
\* first pair.
C7_ManchesterRecovery ==
    /\ (method = "Manchester" /\ \E k \in 1..Len(calls) : calls[k] = "decode") =>
          DecodeReturned /\ error = "none"
    /\ (DecodeReturned /\ method = "Manchester") =>
          /\ Len(decoded_data) >= L \div 2
          /\ Len(decoded_data) - (L \div 2) \in 0..7
          /\ \A k \in (L \div 2) + 1..Len(decoded_data) : decoded_data[k] = 0
          /\ \A k \in 1..(L \div 2) :
                decoded_data[k] =
                    IF Received[2 * k - 1] = 0 /\ Received[2 * k] = 1 THEN 0
                    ELSE IF Received[2 * k - 1] = 1 /\ Received[2 * k] = 0 THEN 1
                    ELSE IF k = 1 THEN 0
                    ELSE decoded_data[k - 1]

C7_Witness ==
    /\ DecodeReturned /\ method = "Manchester"
    /\ L = 16
    /\ \E k \in 2..8 : ~ValidPair(k) /\ decoded_data[k] = 1
    /\ \E k \in 2..8 : ValidPair(k) /\ decoded_data[k] = 0

\* the messages of one kind among those printed
Messages(kind) == {k \in 1..Len(printed) : printed[k].kind = kind}
\* symbol 0 of the decoded list is the invalid pair [1,1], the other
\* complete pairs are valid
InvalidFirstSymbol ==
    /\ DecodeReturned /\ method = "Manchester"
    /\ L >= 2 /\ Received[1] = 1 /\ Received[2] = 1
    /\ \A k \in 2..(L \div 2) : ValidPair(k)

\* C8 as claimed: Manchester decode of a level sequence whose symbol 0 is
\* the invalid pair [1,1] and whose other symbols are valid yields 0 as the
\* first bit and prints exactly one message in the whole call, the padding
\* message included in the count.
C8_OneWarning ==
    InvalidFirstSymbol => decoded_data[1] = 0 /\ Len(printed) = 1

\* C8 amended: such a decode yields 0 as the first bit and prints exactly
\* one invalid-transition message, for position 0, as its first message; the
\* call prints one message in all when the number of complete pairs is a
\* multiple of 8, and otherwise two, the second being the padding message.
C8_OneRecoveryWarning ==
    InvalidFirstSymbol =>
        /\ decoded_data[1] = 0
        /\ Cardinality(Messages("erro")) = 1
        /\ printed[1] = [kind |-> "erro", val |-> 0]
        /\ Len(printed) = IF (L \div 2) % 8 = 0 THEN 1 ELSE 2
        /\ Len(printed) = 2 => printed[2].kind = "padding"

C8_Witness ==
    /\ InvalidFirstSymbol
    /\ L = 16
    /\ printed = <<[kind |-> "erro", val |-> 0]>>
    /\ decoded_data[1] = 0 /\ Len(decoded_data) = 8

\* the number of bits a scheme's decoder emits for L levels, padding apart
DecodedCount(m, len) ==
    CASE m \in {"NRZ", "AMI"} -> len
      [] m = "NRZI" -> Max(0, len - 1)
      [] m \in {"Manchester", "Biphase_Mark", "Biphase_Space"} -> len \div 2
      [] m = "Differential_Manchester" -> Max(0, (len \div 2) - 1)

\* C9 as claimed: for every one of the seven schemes and every level
\* sequence, the list decode returns has a length that is a multiple of 8.
C9_PaddingEveryScheme ==
    DecodeReturned => Len(decoded_data) % 8 = 0

\* C9 amended: padding is applied by decode for Manchester only.  For
\* Manchester the returned length is a multiple of 8, reached by appending
\* 0-bits after the decoded ones when their count is not a multiple of 8,
\* and the number appended is printed; for the other six schemes decode
\* appends nothing and prints nothing, so the returned length is the decoded
\* count, multiple of 8 or not.
C9_PaddingManchesterOnly ==
    DecodeReturned =>
        LET D == DecodedCount(method, L)
            pad == Len(decoded_data) - D
        IN  IF method = "Manchester"
            THEN /\ Len(decoded_data) % 8 = 0
                 /\ pad = (8 - (D % 8)) % 8
                 /\ \A k \in D + 1..Len(decoded_data) : decoded_data[k] = 0
                 /\ pad > 0 => /\ printed # <<>>
                               /\ printed[Len(printed)] =
                                      [kind |-> "padding", val |-> pad]
                 /\ pad = 0 => Messages("padding") = {}
            ELSE pad = 0 /\ printed = <<>>

C9_Witness ==
    /\ DecodeReturned
    /\ method = "Biphase_Mark"
    /\ L = 6
    /\ Len(decoded_data) = 3
    /\ printed = <<>>

\* an encode or decode call with this session's scheme name has been made
CodecCalled == \E k \in 1..Len(calls) : calls[k] \in {"encode", "decode"}

\* C10: an unknown scheme is rejected at the boundary: encode and decode
\* with a name that is not one of the seven registered ones raise ValueError
\* before any scheme function runs, return nothing and leave the input lists
\* and the encoder unchanged; with a registered name they never raise it; the
\* names accepted by encode and by decode are the same.
C10_UnknownSchemeRejected ==
    /\ [](/\ DOMAIN encoding_methods = DOMAIN decoding_methods
          /\ Cardinality(DOMAIN encoding_methods) = 7
          /\ (CodecCalled /\ method \notin DOMAIN encoding_methods) =>
                /\ pc = "raised" /\ error = "ValueError"
                /\ ran = <<>> /\ printed = <<>> /\ decoded_data = <<>>
                /\ calls[1] = "encode" => encoded_data = <<>>
          /\ method \in DOMAIN encoding_methods =>
                pc # "raised" /\ error = "none")
    /\ [][/\ encoding_methods' = encoding_methods
          /\ decoding_methods' = decoding_methods
          /\ pc' = "raised" =>
                /\ binary_data' = binary_data
                /\ encoded_data' = encoded_data
                /\ transmitted_data' = transmitted_data
                /\ decoded_data' = decoded_data
                /\ ran' = ran /\ printed' = printed]_vars

C10_Witness ==
    /\ pc = "raised" /\ error = "ValueError"
    /\ method = "manchester"
    /\ calls = <<"simulate_channel", "decode">>
    /\ Len(transmitted_data) = 4
    /\ ran = <<>>

ChannelCalled == \E k \in 1..Len(calls) : calls[k] = "simulate_channel"
DecodeCalled == \E k \in 1..Len(calls) : calls[k] = "decode"
\* the level alphabet of a scheme
Alphabet(m) == IF m = "AMI" THEN {-1, 0, 1} ELSE {0, 1}

\* C11 as claimed: malformed input is rejected before processing: encode
\* fails with an error when an input value is not 0 or 1, decode fails with
\* an error when a level is outside the scheme's alphabet, and neither then
\* returns a sequence.
C11_MalformedInputRejected ==
    /\ (EncodeCalled /\ ~IsBits(binary_data)) =>
          error # "none" /\ encoded_data = <<>>
    /\ (DecodeCalled /\ \E k \in 1..L : Received[k] \notin Alphabet(method)) =>
          error # "none" /\ decoded_data = <<>>

\* C12 as claimed: simulate_channel fails with an error whenever the
\* probability is outside [0,1] and then returns no level sequence.
C12_ProbabilityRejected ==
    (ChannelCalled /\ (noise_level < 0 \/ noise_level > 100)) =>
        error # "none" /\ transmitted_data = <<>>

\* C13: noise at probability <= 0 is a no-op: simulate_channel(levels, p)
\* with p <= 0 returns a sequence equal to levels element for element, as a
\* new list distinct from the input, and the input is not modified.
C13_NoNoiseIsCopy ==
    /\ [](ChannelCalled /\ noise_level <= 0 =>
            /\ Len(transmitted_data) = Len(encoded_data)
            /\ \A k \in 1..Len(encoded_data) :
                  transmitted_data[k] = encoded_data[k]
            /\ obj.transmitted_data # obj.encoded_data
            /\ obj.transmitted_data # obj.binary_data
            /\ obj.transmitted_data # 0)
    /\ [][(pc = "encoded" /\ pc' = "received") =>
            encoded_data' = encoded_data /\ obj'.encoded_data = obj.encoded_data]_vars

C13_Witness ==
    /\ pc = "received"
    /\ noise_level = -50
    /\ Len(encoded_data) >= 3
    /\ \E j, k \in 1..Len(encoded_data) : encoded_data[j] # encoded_data[k]
    /\ transmitted_data = encoded_data
    /\ obj.transmitted_data # obj.encoded_data

\* C14: noise at probability 1.0 flips every level: whatever the random
\* draws, simulate_channel(levels, 1.0) returns a sequence of the same length
\* in which every 0 became 1, every 1 became 0 and every other level (AMI's
\* -1) became 0; no position keeps its original value.
C14_FullNoiseFlipsAll ==
    (ChannelCalled /\ noise_level = 100) =>
        /\ Len(transmitted_data) = Len(encoded_data)
        /\ \A k \in 1..Len(encoded_data) :
              /\ encoded_data[k] = 0 => transmitted_data[k] = 1
              /\ encoded_data[k] = 1 => transmitted_data[k] = 0
              /\ encoded_data[k] \notin {0, 1} => transmitted_data[k] = 0
              /\ transmitted_data[k] # encoded_data[k]

C14_Witness ==
    /\ pc = "received"
    /\ noise_level = 100
    /\ method = "AMI" /\ EncodeCalled
    /\ Len(encoded_data) >= 4
    /\ \A v \in {-1, 0, 1} : \E k \in 1..Len(encoded_data) : encoded_data[k] = v
    /\ \A k \in 1..Len(encoded_data) : transmitted_data[k] # encoded_data[k]

\* C15: AMI encoding: every 0-bit gives level 0, every 1-bit a level in
\* {+1,-1}, and the levels of two successive 1-bits, adjacent or separated
\* by 0-bits, have opposite signs; 0-bits never change the running polarity.
C15_AMIAlternates ==
    (EncodeCalled /\ method = "AMI" /\ IsBits(binary_data)) =>
        /\ Len(encoded_data) = N
        /\ \A k \in 1..N :
              /\ binary_data[k] = 0 => encoded_data[k] = 0
              /\ binary_data[k] = 1 => encoded_data[k] \in {1, -1}
        /\ \A j, k \in 1..N :
              (/\ j < k /\ binary_data[j] = 1 /\ binary_data[k] = 1
               /\ \A i \in j + 1..k - 1 : binary_data[i] = 0)
              => encoded_data[j] = -encoded_data[k]

C15_Witness ==
    /\ EncodeCalled /\ method = "AMI" /\ pc = "encoded"
    /\ binary_data = <<1, 0, 0, 1, 1>>
    /\ encoded_data = <<-1, 0, 0, 1, -1>>

\* a Manchester decode has returned for a list made only of valid pairs
ValidManchesterDecoded ==
    /\ DecodeReturned /\ method = "Manchester"
    /\ L % 2 = 0
    /\ \A k \in 1..(L \div 2) : ValidPair(k)
PairBits == [k \in 1..(L \div 2) |-> IF Received[2 * k - 1] = 0 THEN 0 ELSE 1]

\* C16 as claimed: Manchester decode of a valid signal returns exactly the
\* encoded bits and nothing more: one bit per pair, 0 for (0,1) and 1 for
\* (1,0), the length being the number of pairs; decode([0,1,0,1,0,1,0,1]) =
\* [0,0,0,0] and decode([0,1,0,1,1,0,0,1]) = [0,0,1,0].
C16_ValidDecodeExact ==
    ValidManchesterDecoded =>
        /\ decoded_data = PairBits
        /\ Received = <<0, 1, 0, 1, 0, 1, 0, 1>> => decoded_data = <<0, 0, 0, 0>>
        /\ Received = <<0, 1, 0, 1, 1, 0, 0, 1>> => decoded_data = <<0, 0, 1, 0>>

\* C16 amended: Manchester decode of a valid signal of P pairs returns one
\* bit per pair, 0 for (0,1) and 1 for (1,0), followed by (8 - P mod 8) mod 8
\* padding zeros, so exactly the encoded bits only when P is a multiple of 8;
\* decode([0,1,0,1,0,1,0,1]) = [0,0,0,0,0,0,0,0] and
\* decode([0,1,0,1,1,0,0,1]) = [0,0,1,0,0,0,0,0].
C16_ValidDecodePadded ==
    ValidManchesterDecoded =>
        /\ decoded_data = PairBits \o Zeros((8 - ((L \div 2) % 8)) % 8)
        /\ (L \div 2) % 8 = 0 => decoded_data = PairBits
        /\ Received = <<0, 1, 0, 1, 0, 1, 0, 1>> =>
              decoded_data = <<0, 0, 0, 0, 0, 0, 0, 0>>
        /\ Received = <<0, 1, 0, 1, 1, 0, 0, 1>> =>
              decoded_data = <<0, 0, 1, 0, 0, 0, 0, 0>>

C16_Witness ==
    /\ ValidManchesterDecoded
    /\ Received = <<0, 1, 0, 1, 1, 0, 0, 1>>
    /\ decoded_data = <<0, 0, 1, 0, 0, 0, 0, 0>>

\* C17: encode output shape: for every bit sequence of length N encode
\* returns N levels for NRZ, NRZI and AMI and 2N levels for Manchester,
\* Differential_Manchester, Biphase_Mark and Biphase_Space; every level is
\* in {0,1}, for AMI in {-1,0,+1}; encode never fails on such input.
C17_EncodeShape ==
    (EncodeCalled /\ method \in RegisteredMethods /\ IsBits(binary_data)) =>
        /\ error = "none" /\ pc # "raised"
        /\ Len(encoded_data) =
              IF method \in {"NRZ", "NRZI", "AMI"} THEN N ELSE 2 * N
        /\ \A k \in 1..Len(encoded_data) : encoded_data[k] \in Alphabet(method)

C17_Witness ==
    /\ EncodeCalled /\ pc = "encoded"
    /\ method = "Differential_Manchester"
    /\ N = 9 /\ Len(encoded_data) = 18
    /\ \E j, k \in 1..N : binary_data[j] = 0 /\ binary_data[k] = 1

\* C18: NRZI decode of a level sequence of length N returns N-1 bits (none
\* when N is 0 or 1): the first sample gives no bit, and for every i in
\* 1..N-1 the bit is 1 when level[i] differs from level[i-1], else 0.
C18_NRZIDecodeRule ==
    (DecodeReturned /\ method = "NRZI") =>
        /\ Len(decoded_data) = Max(0, L - 1)
        /\ \A i \in 1..L - 1 :
              decoded_data[i] = IF Received[i + 1] # Received[i] THEN 1 ELSE 0

C18_Witness ==
    /\ DecodeReturned /\ method = "NRZI"
    /\ L = 4
    /\ \E k \in 1..L : Received[k] = 2
    /\ Len(decoded_data) = 3
    /\ \E j, k \in 1..3 : decoded_data[j] = 0 /\ decoded_data[k] = 1

\* C19: Differential Manchester decode never reads past the end of its
\* input: for every level sequence of length L >= 0 every index it reads is
\* below L, it returns max(0, floor(L/2) - 1) bits, and bit k is 1 when
\* levels[2k] = levels[2k+2] and 0 otherwise; the final symbol gives no bit
\* of its own.
C19_DiffManchesterBounds ==
    (DecodeReturned /\ method = "Differential_Manchester") =>
        /\ \A i \in dm_reads : 0 <= i /\ i < L
        /\ Len(decoded_data) = Max(0, (L \div 2) - 1)
        /\ \A k \in 0..Len(decoded_data) - 1 :
              decoded_data[k + 1] =
                  IF Received[2 * k + 1] = Received[2 * k + 3] THEN 1 ELSE 0
        /\ L >= 4 => dm_reads = {2 * k : k \in 0..(L \div 2) - 1}
        /\ L < 4 => dm_reads = {}

C19_Witness ==
    /\ DecodeReturned /\ method = "Differential_Manchester"
    /\ L = 18
    /\ Len(decoded_data) = 8
    /\ 16 \in dm_reads /\ 17 \notin dm_reads
    /\ \E j, k \in 1..8 : decoded_data[j] = 0 /\ decoded_data[k] = 1

\* the most recent call repeats the first call's function and arguments
SameArguments ==
    /\ Len(calls) >= 2
    /\ last_call.fn = first_call.fn
    /\ last_call.method = first_call.method
    /\ last_call.data = first_call.data

\* C20: encoder state never survives a call: in any sequence of encode and
\* decode calls on one DigitalEncoder, every call starts from the scheme's
\* initial value (level 0, polarity +1), so two calls with equal arguments
\* return equal results whatever was called in between.
C20_NoStateAcrossCalls ==
    /\ SameArguments => last_call.result = first_call.result
    /\ (last_call.fn = "encode" /\ last_call.data # <<>>) =>
          LET b == last_call.data
              r == last_call.result
          IN  /\ last_call.method \in {"NRZI", "Biphase_Mark",
                                       "Differential_Manchester"} => r[1] = b[1]
              /\ last_call.method = "Biphase_Space" => r[1] = 1 - b[1]
              /\ last_call.method = "AMI" =>
                    \A k \in 1..Len(b) :
                        (b[k] = 1 /\ \A j \in 1..k - 1 : b[j] = 0) => r[k] = -1

C20_Witness ==
    /\ Len(calls) = 3
    /\ SameArguments
    /\ first_call.fn = "encode" /\ first_call.method = "NRZI"
    /\ first_call.data = <<1, 0>> /\ last_call.result = <<1, 1>>
    /\ left.level = 1 /\ left.last_polarity = -1

\* the number D of bits manchester_decode has decoded before the padding:
\* one per complete pair of the list it was given
D == L \div 2

\* C22: Manchester padding: after manchester_decode the returned length is
\* a multiple of 8; when the number D of decoded bits is not a multiple of 8
\* exactly 8 - (D mod 8) bits, between 1 and 7, are appended, all 0 and all
\* at the end, and the printed count is the number appended; when D is a
\* multiple of 8, D = 0 for an empty or single-level input included, nothing
\* is appended and nothing is reported.
C22_ManchesterPadding ==
    (DecodeReturned /\ method = "Manchester") =>
        /\ Len(decoded_data) % 8 = 0
        /\ L <= 1 => D = 0 /\ decoded_data = <<>>
        /\ D % 8 # 0 =>
              /\ Len(decoded_data) - D = 8 - (D % 8)
              /\ Len(decoded_data) - D \in 1..7
              /\ \A k \in D + 1..Len(decoded_data) : decoded_data[k] = 0
              /\ Cardinality(Messages("padding")) = 1
              /\ printed[Len(printed)] =
                    [kind |-> "padding", val |-> Len(decoded_data) - D]
        /\ D % 8 = 0 =>
              /\ Len(decoded_data) = D
              /\ Messages("padding") = {}

C22_Witness ==
    /\ DecodeReturned /\ method = "Manchester"
    /\ D = 9 /\ Len(decoded_data) = 16
    /\ decoded_data[9] = 1
    /\ printed = <<[kind |-> "padding", val |-> 7]>>

\* encode of a bit sequence under one of the three stateful two-level-per-bit
\* schemes has returned
TwoLevelEncoded ==
    /\ EncodeCalled /\ error = "none" /\ pc # "start"
    /\ IsBits(binary_data)
    /\ method \in {"Differential_Manchester", "Biphase_Mark", "Biphase_Space"}

\* the level the line holds when symbol k (1-based) starts
LevelBefore(k) == IF k = 1 THEN 0 ELSE encoded_data[2 * k - 2]

Complement(bits) == [k \in 1..Len(bits) |-> 1 - bits[k]]

C24_BiphaseDecodeRule ==
    /\ (DecodeReturned /\ method = "Biphase_Mark") =>
          /\ Len(decoded_data) = L \div 2
          /\ \A k \in 1..(L \div 2) :
                decoded_data[k] =
                    IF k = 1 THEN 0
                    ELSE IF Received[2 * k - 1] # Received[2 * k - 2] THEN 1
                    ELSE 0
    /\ (DecodeReturned /\ method = "Biphase_Space") =>
          /\ Len(decoded_data) = L \div 2
          /\ decoded_data = Complement(biphase_mark_decode(Received).decoded)
          /\ L >= 2 => decoded_data[1] = 1

C24_Witness ==
    /\ DecodeReturned /\ method = "Biphase_Mark"
    /\ Received = <<1, 2, -1, -1>>
    /\ decoded_data = <<0, 1>>

\* B with its first bit inverted
FirstBitFlipped(bits) == [k \in 1..Len(bits) |-> IF k = 1 THEN 1 - bits[k] ELSE bits[k]]

\* C26: for every bit sequence B of length >= 1, both NRZI and
\* Differential_Manchester give decode(encode(B)) = B without its first bit
\* (length N-1, element k is B[k+1]); the first bit of B is not recoverable
\* from the decoded output: B with its first bit inverted decodes to the same.
C26_FirstBitLost ==
    /\ RoundTripDone("NRZI", 1) =>
          /\ Len(decoded_data) = N - 1
          /\ \A k \in 1..N - 1 : decoded_data[k] = binary_data[k + 1]
          /\ decoded_data = nrzi_decode(nrzi_encode(FirstBitFlipped(binary_data))).decoded
    /\ RoundTripDone("Differential_Manchester", 1) =>
          /\ Len(decoded_data) = N - 1
          /\ \A k \in 1..N - 1 : decoded_data[k] = binary_data[k + 1]
          /\ decoded_data =
                differential_manchester_decode(
                    differential_manchester_encode(FirstBitFlipped(binary_data))).decoded

C26_Witness ==
    /\ RoundTripDone("Differential_Manchester", 3)
    /\ binary_data = <<1, 0, 1>>
    /\ decoded_data = <<0, 1>>

RECURSIVE PrefixSum(_, _)
PrefixSum(s, k) == IF k = 0 THEN 0 ELSE PrefixSum(s, k - 1) + s[k]

\* the value of ami_encode's last_polarity after k iterations of its loop
PolarityAfter(k) ==
    ForEach(ami_encode_body, SubSeq(binary_data, 1, k), 1,
            [last_polarity |-> InitialLocals.last_polarity,
             encoded |-> <<>>]).last_polarity

AMIEncoded ==
    /\ EncodeCalled /\ pc # "start" /\ error = "none"
    /\ method = "AMI" /\ IsBits(binary_data)

\* C30: AMI output is DC-balanced from the first mark on: for every bit
\* sequence B and every prefix of encode(B, AMI) the sum of the levels of the
\* prefix is 0 or -1; the first 1 bit of B is emitted as -1; the running
\* polarity variable is always +1 or -1.
C30_AMIBalanced ==
    AMIEncoded =>
        /\ Len(encoded_data) = N
        /\ \A k \in 0..N :
              /\ PrefixSum(encoded_data, k) \in {0, -1}
              /\ PolarityAfter(k) \in {1, -1}
        /\ \A k \in 1..N :
              (binary_data[k] = 1 /\ \A j \in 1..k - 1 : binary_data[j] = 0) =>
                  encoded_data[k] = -1

C30_Witness ==
    /\ AMIEncoded
    /\ binary_data = <<0, 1, 1, 0, 1, 1>>
    /\ encoded_data = <<0, -1, 1, 0, -1, 1>>
    /\ PrefixSum(encoded_data, 5) = -1 /\ PrefixSum(encoded_data, 6) = 0
    /\ PolarityAfter(5) = -1 /\ PolarityAfter(6) = 1

\* the list object handed to decode
ReceivedObject ==
    IF ChannelCalled THEN obj.transmitted_data ELSE obj.encoded_data

\* C29: no encode, decode or simulate_channel call modifies the list it is
\* given, and each returns a newly built list, with one exception:
\* nrz_decode returns the input list object itself, so its result and the
\* caller's level sequence are one list; nrz_encode and simulate_channel at
\* noise <= 0 do return new lists.
C29_FrameEffect ==
    /\ []((EncodeCalled /\ pc \notin {"start", "raised"}) =>
            obj.encoded_data \notin {0, obj.binary_data})
    /\ [](ChannelCalled =>
            obj.transmitted_data \notin {0, obj.binary_data, obj.encoded_data})
    /\ [](DecodeReturned =>
            IF method = "NRZ"
            THEN obj.decoded_data = ReceivedObject
            ELSE obj.decoded_data \notin {0, obj.binary_data, obj.encoded_data,
                                          obj.transmitted_data})
    /\ [][/\ binary_data' = binary_data
          /\ obj'.binary_data = obj.binary_data
          /\ pc # "start" => /\ encoded_data' = encoded_data
                             /\ obj'.encoded_data = obj.encoded_data
          /\ pc = "received" => /\ transmitted_data' = transmitted_data
                                /\ obj'.transmitted_data = obj.transmitted_data]_vars

C29_Witness ==
    /\ DecodeReturned /\ method = "NRZ"
    /\ calls = <<"encode", "simulate_channel", "decode">>
    /\ noise_level = 0
    /\ obj.binary_data = 1 /\ obj.encoded_data = 2
    /\ obj.transmitted_data = 3 /\ obj.decoded_data = 3
    /\ decoded_data = <<1, 0, 2>>

ValidPairs == {k \in 1..(L \div 2) : ValidPair(k)}
\* the number of invalid pairs before symbol k
InvalidBefore(k) == Cardinality({j \in 1..k - 1 : ~ValidPair(j)})

Alone(c) ==
    IF c.op = "encode"
    THEN [result |-> encode(c.data, c.method).result, printed |-> <<>>]
    ELSE LET r == decode(c.data, c.method)
         IN  [result |-> r.result, printed |-> r.printed]

\* C21: concurrent calls are safe without locking: when two encode/decode
\* calls on the same DigitalEncoder run with their loop iterations
\* interleaved in any order, each call returns exactly the result (and
\* prints the messages) it does when run alone.
C21_ConcurrentCallsSafe ==
    \A t \in Threads :
        frame[t].pc = "done" =>
            /\ frame[t].result = Alone(call[t]).result
            /\ frame[t].printed = Alone(call[t]).printed

C21_Witness ==
    /\ \A t \in Threads : frame[t].pc = "done" /\ frame[t].mixed
    /\ call["t1"] = [op |-> "encode", method |-> "NRZI", data |-> <<1, 1>>, noise |-> 0]
    /\ call["t2"] = [op |-> "encode", method |-> "Biphase_Mark", data |-> <<0, 1>>,
                     noise |-> 0]
    /\ frame["t1"].result = <<1, 0>>
    /\ frame["t2"].result = <<0, 1, 0, 1>>

\* C25: every encode, decode and simulate_channel call terminates on every
\* finite input, after a number of loop iterations that does not exceed the
\* input length: the index of every decode loop strictly increases, by 1 or
\* 2, on every iteration, the iterations that take the Manchester recovery
\* branch included, and no loop waits on anything.
C25_Terminates ==
    /\ [](\A t \in Threads : frame[t].n <= Len(call[t].data))
    /\ [][\A t \in Threads :
            (frame'[t].n # frame[t].n /\ call[t].op = "decode") =>
                frame'[t].i - frame[t].i \in {1, 2}]_vars
    /\ \A t \in Threads : (frame[t].pc = "loop") ~> (frame[t].pc = "done")

\* manchester_decode has returned after two iterations, the second of which
\* took the recovery branch
C25_Witness ==
    /\ frame["t1"].pc = "done" /\ frame["t1"].n = 2 /\ frame["t1"].i = 4
    /\ call["t1"] = [op |-> "decode", method |-> "Manchester",
                     data |-> <<1, 0, 1, 1>>, noise |-> 0]
    /\ frame["t1"].result = <<1, 1, 0, 0, 0, 0, 0, 0>>
    /\ Len(frame["t1"].printed) = 2

====
